---------------------------- MODULE Spec2Model ----------------------------
(***************************************************************************)
(* Model of the two halves of the credential pipeline:                     *)
(*                                                                         *)
(*   - DynamicKeyProvider (src/src/mcp_agent/llm/dynamic_key_provider.py): *)
(*     a cache of API keys guarded by one asyncio.Lock, filled on demand   *)
(*     from an HTTP endpoint.                                              *)
(*   - AdaptiveTokenPoller (src/examples/dynamic_api_key_server.py): a     *)
(*     polling loop that detects token rotation and adapts its interval.   *)
(*                                                                         *)
(* The two halves share no state.  Spec runs the key provider, SpecPoller  *)
(* runs the poller and SpecPolicy applies the poller's interval policy to  *)
(* enumerated poller states; each leaves the other half's variables alone. *)
(***************************************************************************)
EXTENDS Integers, Sequences, FiniteSets, TLC

VARIABLES
    (* ---- DynamicKeyProvider ---- *)
    cache,          \* self._cache: provider name -> [key, expires_at]
    lockQueue,      \* self._lock: the holder (head) and the tasks queued behind it
    pc,             \* per calling task: where it is in fetch_api_key
    provider_name,  \* per calling task: the argument of its current call
    result,         \* per calling task: the value returned or the error raised
    now,            \* time.time() of the consumer process, in seconds
    (* history of the key provider's run, read by the properties only *)
    seen,           \* per task: what its cache check found: {} or the stored
                    \*   value with whether now <= expiresAt held at the check
    nets,           \* per task: network requests issued by its current call
    raceFirst,      \* the task that was ahead when two calls raced on a cold cache
    fetches,        \* number of fetch_api_key calls started
    clearSeen,      \* per task: "during" when clear_cache covered its key while
                    \*   its request was in flight; "after" when its call began
                    \*   after such a clear, the other task's request still in flight
    reply,          \* the response handled by the step just taken, and by whom,
                    \*   or the argument of the clear_cache call just made
    (* ---- AdaptiveTokenPoller ---- *)
    current_token,      \* self.current_token: <<>> for None, else <<token>>
    refresh_intervals,  \* self.pattern.refresh_intervals
    last_refresh_time,  \* self.pattern.last_refresh_time, in clock ticks
    confidence_level,   \* self.pattern.confidence_level
    polling_interval,   \* self.polling_interval
    running,            \* self.running
    lock,               \* self.lock (threading.Lock): "free" or its holder
    loop,               \* position of the _poll_loop task
    new_token,          \* _poll_loop local: the token just fetched
    current_time,       \* _poll_loop local: time.time() taken after the fetch
    consecutive_same_tokens, \* _poll_loop local
    next_interval,      \* _poll_loop local: the sleep chosen for this iteration
    wall,               \* time.time() of the server process, in clock ticks
    snapshot,           \* the reply of the endpoint call (get_current_token or
                        \*   force_poll) that has just returned
    forced,             \* whether a /force-poll request awaits its fetch
    shutdown,           \* lifespan's exit: "no", "awaiting" the task, then its outcome
    (* history of the poller's run, read by the properties only *)
    allIntervals,       \* the interval of every rotation seen, oldest first
    successes,          \* number of CredentialSource calls of the loop that succeeded
    polls               \* number of CredentialSource calls made by the loop

kvars == <<cache, lockQueue, pc, provider_name, result, now,
           seen, nets, raceFirst, fetches, clearSeen, reply>>
pvars == <<current_token, refresh_intervals, last_refresh_time, confidence_level,
           polling_interval, running, lock, loop, new_token, current_time,
           consecutive_same_tokens, next_interval, wall, snapshot, forced,
           shutdown, allIntervals, successes, polls>>
vars == <<kvars, pvars>>

(***************************************************************************)
(* Bounds of the model.                                                    *)
(***************************************************************************)
MaxFetches == 2     \* fetch_api_key calls explored
MaxTicks == 2       \* clock advances explored in the consumer process
MaxPolls == 8       \* CredentialSource calls explored in the polling loop
MaxConfidence == 4  \* largest confidence the interval policy is applied to
MaxFairPolls == 4   \* CredentialSource calls explored under the fair event loop

Max(a, b) == IF a >= b THEN a ELSE b
Min(a, b) == IF a <= b THEN a ELSE b

RECURSIVE Sum(_)
Sum(s) == IF s = <<>> THEN 0 ELSE Head(s) + Sum(Tail(s))

(***************************************************************************)
(*                          DynamicKeyProvider                             *)
(***************************************************************************)
Callers == {"c1", "c2"}           \* two tasks of one event loop
Keys == {"p", "q"}                \* provider names used by the callers
PyNone == "<None>"                \* Python's None where a str is expected
TickSteps == {60}                 \* seconds by which the clock is seen to advance

\* DynamicKeyConfig.cache_duration_seconds (the default of the field)
cache_duration_seconds == 1800
\* typical_refresh_interval in fetch_api_key
typical_refresh_interval == 1800

\* Python truthiness of an Optional[str]
Truthy(s) == s # PyNone /\ s # ""

(***************************************************************************)
(* The parsed JSON body of a 2xx response: `has` is the set of keys the    *)
(* object holds, the other fields their values (a fixed filler when the    *)
(* key is absent, never read).                                             *)
(***************************************************************************)
Fields == {"token", "age_seconds", "api_key", "expires_in"}
TokenVals == <<"", "abc">>
AgeVals == <<1700, 1790>>
ApiKeyVals == <<"", "xyz">>
ExpiresVals == <<120>>
Opt(f, h, vals) ==
    IF f \in h THEN {vals[i] : i \in DOMAIN vals} ELSE {vals[1]}
AllBodies ==
    UNION { [has : {h},
             token : Opt("token", h, TokenVals),
             age_seconds : Opt("age_seconds", h, AgeVals),
             api_key : Opt("api_key", h, ApiKeyVals),
             expires_in : Opt("expires_in", h, ExpiresVals)] : h \in SUBSET Fields }

(***************************************************************************)
(* The bodies the endpoint answers with.  Next to a token the body may     *)
(* carry a non-empty api_key but no expires_in; without a token,           *)
(* age_seconds takes one value only.                                       *)
(***************************************************************************)
Bodies ==
    { b \in AllBodies :
        IF "token" \in b.has
        THEN "expires_in" \notin b.has /\ b.api_key # ""
        ELSE b.age_seconds # 1790 }

\* What client.get / raise_for_status / response.json can produce.
Responses ==
    { [kind |-> k, data |-> CHOOSE b \in Bodies : b.has = {}] :
        k \in {"RequestError", "HTTPStatusError", "JSONDecodeError"} }
    \cup { [kind |-> "ok", data |-> b] : b \in Bodies }


\* The first argument of each ProviderKeyError fetch_api_key constructs.
InvalidResponse == "Invalid response from key endpoint"
FailedToFetch == "Failed to fetch API key"
FailedToConnect == "Failed to connect to key endpoint"
UnexpectedError == "Unexpected error fetching API key"

\* ParseResponse with the two branches in the other order (api_key first)
ParseResponse_apiKeyFirst(data) ==
    IF "api_key" \in data.has
    THEN [api_key |-> data.api_key,
          expires_in |-> IF "expires_in" \in data.has
                         THEN data.expires_in
                         ELSE cache_duration_seconds]
    ELSE IF "token" \in data.has
    THEN [api_key |-> data.token,
          expires_in |-> IF "age_seconds" \in data.has
                         THEN Max(60, typical_refresh_interval - data.age_seconds)
                         ELSE cache_duration_seconds]
    ELSE [api_key |-> PyNone, expires_in |-> cache_duration_seconds]

(***************************************************************************)
(* Lines 99-117: pick the key and its lifetime out of the response body.   *)
(***************************************************************************)
ParseResponse(data) ==
    IF "token" \in data.has
    THEN [api_key |-> data.token,
          expires_in |-> IF "age_seconds" \in data.has
                         THEN Max(60, typical_refresh_interval - data.age_seconds)
                         ELSE cache_duration_seconds]
    ELSE IF "api_key" \in data.has
    THEN [api_key |-> data.api_key,
          expires_in |-> IF "expires_in" \in data.has
                         THEN data.expires_in
                         ELSE cache_duration_seconds]
    ELSE [api_key |-> PyNone, expires_in |-> cache_duration_seconds]


\* TryBody with the cache written before the key is validated
TryBody_storeFirst(r, t) ==
    IF r.kind # "ok"
    THEN [exc |-> r.kind, entry |-> {}]
    ELSE LET parsed == ParseResponse(r.data) IN
         [exc |-> IF Truthy(parsed.api_key) THEN "" ELSE InvalidResponse,
          entry |-> {[key |-> parsed.api_key,
                      expires_at |-> t + parsed.expires_in]}]

(***************************************************************************)
(* Lines 85-135, the body of the try statement once the request has been   *)
(* answered by r at time t: exc names the exception that leaves the body   *)
(* ("" when it runs to its return), entry is what it stores in the cache.  *)
(***************************************************************************)
TryBody(r, t) ==
    IF r.kind # "ok"
    THEN [exc |-> r.kind, entry |-> {}]
    ELSE LET parsed == ParseResponse(r.data) IN
         IF ~Truthy(parsed.api_key)
         THEN [exc |-> InvalidResponse, entry |-> {}]
         ELSE [exc |-> "",
               entry |-> {[key |-> parsed.api_key,
                           expires_at |-> t + parsed.expires_in]}]

(***************************************************************************)
(* Lines 137-151, the except clauses in their order: the error that leaves *)
(* fetch_api_key when exc was raised in the try body.  The third clause    *)
(* catches every Exception, the ProviderKeyError of line 120 included.     *)
(***************************************************************************)
ExceptClauses(exc) ==
    IF exc = "HTTPStatusError" THEN FailedToFetch
    ELSE IF exc = "RequestError" THEN FailedToConnect
    ELSE UnexpectedError

\* is_expired with the boundary on the wrong side
is_expired_inclusive(entry, t) == t >= entry.expires_at

\* CachedApiKey.is_expired at time t
is_expired(entry, t) == t > entry.expires_at

\* asyncio.Lock: the head of the queue holds the lock, release wakes the next
Holder == IF lockQueue = <<>> THEN "nobody" ELSE Head(lockQueue)
Release(c) == SelectSeq(lockQueue, LAMBDA x : x # c)

\* a store that is dropped when clear_cache ran while the request was in flight
Store_unlessCleared(k, entry) ==
    IF entry = {} \/ \E c \in Callers : pc[c] = "fetching" /\ clearSeen[c] = "during"
    THEN cache
    ELSE [x \in DOMAIN cache \cup {k} |->
            IF x = k THEN CHOOSE e \in entry : TRUE ELSE cache[x]]

\* self._cache after `self._cache[k] = e` for the e of entry, if there is one
Store(k, entry) ==
    IF entry = {} THEN cache
    ELSE [x \in DOMAIN cache \cup {k} |->
            IF x = k THEN CHOOSE e \in entry : TRUE ELSE cache[x]]

NoReply == [kind |-> "none"]

Other(c) == CHOOSE o \in Callers : o # c

KeyInit ==
    /\ cache = <<>>
    /\ lockQueue = <<>>
    /\ pc = [c \in Callers |-> "idle"]
    /\ provider_name = [c \in Callers |-> "p"]
    /\ result = [c \in Callers |-> ""]
    /\ now = 0
    /\ seen = [c \in Callers |-> {}]
    /\ nets = [c \in Callers |-> 0]
    /\ raceFirst = "none"
    /\ fetches = 0
    /\ clearSeen = [c \in Callers |-> "none"]
    /\ reply = NoReply

(***************************************************************************)
(* A task calls fetch_api_key(k) and reaches `async with self._lock`.      *)
(* raceFirst records a race on a cold cache: the other task is inside a    *)
(* call for the same k that found (or will find) no entry for k.           *)
(***************************************************************************)
FetchCall(c, k) ==
    /\ pc[c] \in {"idle", "returned", "raised"}
    /\ fetches < MaxFetches
    /\ fetches' = fetches + 1
    /\ pc' = [pc EXCEPT ![c] = "waiting"]
    /\ provider_name' = [provider_name EXCEPT ![c] = k]
    /\ result' = [result EXCEPT ![c] = ""]
    /\ lockQueue' = Append(lockQueue, c)
    /\ seen' = [seen EXCEPT ![c] = {}]
    /\ nets' = [nets EXCEPT ![c] = 0]
    /\ raceFirst' =
         IF /\ pc[Other(c)] \in {"waiting", "fetching"}
            /\ provider_name[Other(c)] = k
            /\ k \notin DOMAIN cache
            /\ seen[Other(c)] = {}
         THEN Other(c)
         ELSE "none"
    /\ clearSeen' = [clearSeen EXCEPT ![c] =
                       IF /\ pc[Other(c)] = "fetching"
                          /\ provider_name[Other(c)] = k
                          /\ clearSeen[Other(c)] = "during"
                       THEN "after"
                       ELSE "none"]
    /\ UNCHANGED <<cache, now>>
    /\ reply' = NoReply
    /\ UNCHANGED pvars

\* CacheCheck without the lock: the lookup and the request run unserialized
CacheCheck_unlocked(c) ==
    /\ pc[c] = "waiting"
    /\ LET k == provider_name[c]
           cached_key == IF k \in DOMAIN cache THEN {cache[k]} ELSE {}
           hit == \E e \in cached_key : ~is_expired(e, now)
       IN /\ seen' = [seen EXCEPT ![c] =
                       {[value |-> e.key, valid |-> now <= e.expires_at] :
                            e \in cached_key}]
          /\ IF hit
             THEN /\ pc' = [pc EXCEPT ![c] = "returned"]
                  /\ result' = [result EXCEPT ![c] = cache[k].key]
                  /\ lockQueue' = Release(c)
                  /\ UNCHANGED nets
             ELSE /\ pc' = [pc EXCEPT ![c] = "fetching"]
                  /\ nets' = [nets EXCEPT ![c] = @ + 1]
                  /\ UNCHANGED <<result, lockQueue>>
    /\ UNCHANGED <<cache, provider_name, now, raceFirst, fetches, clearSeen>>
    /\ reply' = NoReply
    /\ UNCHANGED pvars

(***************************************************************************)
(* Lines 77-96: the task holds the lock, looks the key up and either       *)
(* returns the unexpired cached key or sends the request and suspends.     *)
(***************************************************************************)
CacheCheck(c) ==
    /\ pc[c] = "waiting"
    /\ Holder = c
    /\ LET k == provider_name[c]
           cached_key == IF k \in DOMAIN cache THEN {cache[k]} ELSE {}
           hit == \E e \in cached_key : ~is_expired(e, now)
       IN /\ seen' = [seen EXCEPT ![c] =
                       {[value |-> e.key, valid |-> now <= e.expires_at] :
                            e \in cached_key}]
          /\ IF hit
             THEN /\ pc' = [pc EXCEPT ![c] = "returned"]
                  /\ result' = [result EXCEPT ![c] = cache[k].key]
                  /\ lockQueue' = Release(c)
                  /\ UNCHANGED nets
             ELSE /\ pc' = [pc EXCEPT ![c] = "fetching"]
                  /\ nets' = [nets EXCEPT ![c] = @ + 1]
                  /\ UNCHANGED <<result, lockQueue>>
    /\ UNCHANGED <<cache, provider_name, now, raceFirst, fetches, clearSeen>>
    /\ reply' = NoReply
    /\ UNCHANGED pvars

(***************************************************************************)
(* Lines 93-151: the request is answered by r; the task parses it, stores  *)
(* the key and returns it, or raises; either way it releases the lock.     *)
(* reply keeps r for the state this step leads to.                         *)
(***************************************************************************)
NetRespond(c, r) ==
    /\ pc[c] = "fetching"
    /\ LET k == provider_name[c]
           out == TryBody(r, now)
       IN /\ cache' = Store(k, out.entry)
          /\ IF out.exc = ""
             THEN /\ pc' = [pc EXCEPT ![c] = "returned"]
                  /\ result' = [result EXCEPT ![c] = (CHOOSE e \in out.entry : TRUE).key]
             ELSE /\ pc' = [pc EXCEPT ![c] = "raised"]
                  /\ result' = [result EXCEPT ![c] = ExceptClauses(out.exc)]
    /\ lockQueue' = Release(c)
    /\ UNCHANGED <<provider_name, now, seen, nets, raceFirst, fetches, clearSeen>>
    /\ reply' = [kind |-> r.kind, data |-> r.data, to |-> c]
    /\ UNCHANGED pvars

\* the arguments clear_cache is called with: a key, the empty string, or none
ClearArgs == Keys \cup {"", PyNone}

(***************************************************************************)
(* Lines 184-189: clear_cache, a plain (non-async) method: it takes no     *)
(* lock and runs between any two steps of the tasks.  reply keeps the      *)
(* argument for the state this step leads to.  A call that finds the cache *)
(* empty while no request is in flight has nothing to act on and is left   *)
(* out.                                                                    *)
(***************************************************************************)
ClearCache(arg) ==
    /\ cache # <<>> \/ \E c \in Callers : pc[c] = "fetching"
    /\ cache' = IF Truthy(arg)
                THEN [x \in DOMAIN cache \ {arg} |-> cache[x]]
                ELSE <<>>
    /\ UNCHANGED <<lockQueue, pc, provider_name, result, now,
                   seen, nets, raceFirst, fetches>>
    /\ clearSeen' = [c \in Callers |->
                       IF pc[c] = "fetching" /\ (~Truthy(arg) \/ arg = provider_name[c])
                       THEN "during"
                       ELSE clearSeen[c]]
    /\ reply' = [kind |-> "clear", arg |-> arg]
    /\ UNCHANGED pvars

\* The wall clock of the consumer process moves on.
Tick(d) ==
    /\ now + d <= MaxTicks * d
    /\ now' = now + d
    /\ UNCHANGED <<cache, lockQueue, pc, provider_name, result,
                   seen, nets, raceFirst, fetches, clearSeen>>
    /\ reply' = NoReply
    /\ UNCHANGED pvars

(***************************************************************************)
(*                          AdaptiveTokenPoller                            *)
(*                                                                         *)
(* time.time() is a float: the server's clock counts ticks of              *)
(* 1/TicksPerSecond s, so that int(interval) has something to truncate.    *)
(***************************************************************************)
TicksPerSecond == 2
Tokens == {"", "a", "b"}          \* what the Helix CLI can print (stripped)
Latencies == {1}                  \* ticks a CredentialSource call can take
NoSnapshot == [status |-> "none"]

\* int(x) for x given in ticks: truncation toward zero, in seconds
PyInt(x) == IF x >= 0 THEN x \div TicksPerSecond ELSE -((-x) \div TicksPerSecond)

(***************************************************************************)
(* Line 104, `variance < 100`, in exact arithmetic: with n samples of sum  *)
(* S the variance is (sum of (n*x - S)^2) / n^3.                           *)
(***************************************************************************)
VarianceNumerator(intervals) ==
    LET n == Len(intervals)
        S == Sum(intervals)
    IN Sum([i \in 1..n |-> (n * intervals[i] - S) * (n * intervals[i] - S)])

LowVariance(intervals) ==
    LET n == Len(intervals)
    IN VarianceNumerator(intervals) < 100 * n * n * n

\* UpdatePattern evicting the newest interval instead of the oldest
UpdatePattern_evictNewest(intervals, confidence, interval) ==
    LET appended == Append(intervals, PyInt(interval))
        kept == IF Len(appended) > 5 THEN SubSeq(appended, 1, 5) ELSE appended
    IN [refresh_intervals |-> kept,
        confidence_level |->
            IF Len(kept) >= 3
            THEN IF LowVariance(kept)
                 THEN confidence + 1
                 ELSE Max(0, confidence - 1)
            ELSE confidence]

\* UpdatePattern judging the window whatever its size
UpdatePattern_anySize(intervals, confidence, interval) ==
    LET appended == Append(intervals, PyInt(interval))
        kept == IF Len(appended) > 5 THEN Tail(appended) ELSE appended
    IN [refresh_intervals |-> kept,
        confidence_level |->
            IF LowVariance(kept)
            THEN confidence + 1
            ELSE Max(0, confidence - 1)]

\* UpdatePattern without the floor at 0
UpdatePattern_noFloor(intervals, confidence, interval) ==
    LET appended == Append(intervals, PyInt(interval))
        kept == IF Len(appended) > 5 THEN Tail(appended) ELSE appended
    IN [refresh_intervals |-> kept,
        confidence_level |->
            IF Len(kept) >= 3
            THEN IF LowVariance(kept)
                 THEN confidence + 1
                 ELSE confidence - 1
            ELSE confidence]

(***************************************************************************)
(* Lines 92-112, _update_pattern: the window and the confidence after an   *)
(* interval (in ticks) has been measured.                                  *)
(***************************************************************************)
UpdatePattern(intervals, confidence, interval) ==
    LET appended == Append(intervals, PyInt(interval))
        kept == IF Len(appended) > 5 THEN Tail(appended) ELSE appended
    IN [refresh_intervals |-> kept,
        confidence_level |->
            IF Len(kept) >= 3
            THEN IF LowVariance(kept)
                 THEN confidence + 1
                 ELSE Max(0, confidence - 1)
            ELSE confidence]

\* CalculateNextPollInterval with `<=` for `<` in the fallback thresholds
CalculateNextPollInterval_lateBackoff(confidence, intervals, last_refresh, consecutive, ctime) ==
    IF confidence >= 3 /\ intervals # <<>>
    THEN LET n == Len(intervals)
             scaled == TicksPerSecond * Sum(intervals) - n * (ctime - last_refresh)
         IN IF scaled > 300 * n * TicksPerSecond THEN 120
            ELSE IF scaled > 120 * n * TicksPerSecond THEN 60
            ELSE 30
    ELSE IF consecutive <= 5 THEN 30
    ELSE IF consecutive <= 20 THEN 60
    ELSE IF consecutive <= 40 THEN 120
    ELSE 300

\* CalculateNextPollInterval with `>=` for `>` in the learned-cadence branch
CalculateNextPollInterval_inclusive(confidence, intervals, last_refresh, consecutive, ctime) ==
    IF confidence >= 3 /\ intervals # <<>>
    THEN LET n == Len(intervals)
             scaled == TicksPerSecond * Sum(intervals) - n * (ctime - last_refresh)
         IN IF scaled >= 300 * n * TicksPerSecond THEN 120
            ELSE IF scaled >= 120 * n * TicksPerSecond THEN 60
            ELSE 30
    ELSE IF consecutive < 5 THEN 30
    ELSE IF consecutive < 20 THEN 60
    ELSE IF consecutive < 40 THEN 120
    ELSE 300

(***************************************************************************)
(* Lines 114-138, _calculate_next_poll_interval.  With n intervals of sum  *)
(* S and e ticks since the last refresh, time_until_next_refresh is        *)
(* S/n - e/TicksPerSecond; both sides of each comparison are multiplied by *)
(* n * TicksPerSecond.                                                     *)
(***************************************************************************)
CalculateNextPollInterval(confidence, intervals, last_refresh, consecutive, ctime) ==
    IF confidence >= 3 /\ intervals # <<>>
    THEN LET n == Len(intervals)
             scaled == TicksPerSecond * Sum(intervals) - n * (ctime - last_refresh)
         IN IF scaled > 300 * n * TicksPerSecond THEN 120
            ELSE IF scaled > 120 * n * TicksPerSecond THEN 60
            ELSE 30
    ELSE IF consecutive < 5 THEN 30
    ELSE IF consecutive < 20 THEN 60
    ELSE IF consecutive < 40 THEN 120
    ELSE 300

\* get_current_token refusing only a token that is None
GetCurrentToken_noneOnly(t) ==
    IF current_token = <<>>
    THEN [status |-> "No token available yet"]
    ELSE [status |-> "ok",
          token |-> current_token[1],
          last_refresh |-> last_refresh_time,
          age_seconds |-> t - last_refresh_time,
          confidence_level |-> confidence_level,
          refresh_intervals |-> refresh_intervals,
          polling_interval |-> polling_interval]

(***************************************************************************)
(* Lines 160-173, get_current_token, evaluated at clock value t.           *)
(***************************************************************************)
GetCurrentToken(t) ==
    IF current_token = <<>> \/ current_token = <<"">>
    THEN [status |-> "No token available yet"]
    ELSE [status |-> "ok",
          token |-> current_token[1],
          last_refresh |-> last_refresh_time,
          age_seconds |-> t - last_refresh_time,
          confidence_level |-> confidence_level,
          refresh_intervals |-> refresh_intervals,
          polling_interval |-> polling_interval]

PollerInit ==
    /\ current_token = <<>>
    /\ refresh_intervals = <<>>
    /\ last_refresh_time = 0
    /\ confidence_level = 0
    /\ polling_interval = 30
    /\ running = FALSE
    /\ lock = "free"
    /\ loop = "unstarted"
    /\ new_token = ""
    /\ current_time = 0
    /\ consecutive_same_tokens = 0
    /\ next_interval = 0
    /\ wall = 0
    /\ snapshot = NoSnapshot
    /\ forced = "idle"
    /\ allIntervals = <<>>
    /\ successes = 0
    /\ polls = 0
    /\ shutdown = "no"

pattern == <<refresh_intervals, last_refresh_time, confidence_level>>

\* Lines 50-54, start_polling
StartPolling ==
    /\ loop = "unstarted"
    /\ running' = TRUE
    /\ loop' = "top"
    /\ snapshot' = NoSnapshot
    /\ UNCHANGED <<current_token, pattern, polling_interval, lock, new_token,
                   current_time, consecutive_same_tokens, next_interval, wall,
                   forced, allIntervals, successes, polls>>
    /\ UNCHANGED shutdown
    /\ UNCHANGED kvars

\* Lines 60-62: the loop test, then the CredentialSource call is started
LoopTop ==
    /\ loop = "top"
    /\ IF running
       THEN /\ polls < MaxPolls
            /\ polls' = polls + 1
            /\ loop' = "fetching"
       ELSE /\ loop' = "done"
            /\ UNCHANGED polls
    /\ snapshot' = NoSnapshot
    /\ UNCHANGED <<current_token, pattern, polling_interval, running, lock, new_token,
                   current_time, consecutive_same_tokens, next_interval, wall,
                   forced, allIntervals, successes>>
    /\ UNCHANGED shutdown
    /\ UNCHANGED kvars

\* Lines 62-63, 140-158: the Helix CLI exits 0 and prints tok, after d ticks
FetchOk(tok, d) ==
    /\ loop = "fetching"
    /\ wall' = wall + d
    /\ new_token' = tok
    /\ current_time' = wall + d
    /\ loop' = "compare"
    /\ successes' = successes + 1
    /\ snapshot' = NoSnapshot
    /\ UNCHANGED <<current_token, pattern, polling_interval, running, lock,
                   consecutive_same_tokens, next_interval, forced,
                   allIntervals, polls>>
    /\ UNCHANGED shutdown
    /\ UNCHANGED kvars

\* Lines 151-154, 88-90: the Helix CLI fails; the loop logs and sleeps 30 s
FetchFail(d) ==
    /\ loop = "fetching"
    /\ wall' = wall + d
    /\ loop' = "errsleep"
    /\ snapshot' = NoSnapshot
    /\ UNCHANGED <<current_token, pattern, polling_interval, running, lock, new_token,
                   current_time, consecutive_same_tokens, next_interval,
                   forced, allIntervals, successes, polls>>
    /\ UNCHANGED shutdown
    /\ UNCHANGED kvars

\* Line 65: `with self.lock` is entered
LoopAcquire ==
    /\ loop = "compare"
    /\ lock = "free"
    /\ lock' = "loop"
    /\ loop' = "locked"
    /\ snapshot' = NoSnapshot
    /\ UNCHANGED <<current_token, pattern, polling_interval, running, new_token,
                   current_time, consecutive_same_tokens, next_interval, wall,
                   forced, allIntervals, successes, polls>>
    /\ UNCHANGED shutdown
    /\ UNCHANGED kvars

\* change detection that measures an interval at the first fetch as well
LoopUpdate_everyChangeMeasured ==
    /\ loop = "locked"
    /\ IF <<new_token>> # current_token
       THEN /\ IF TRUE
               THEN LET up == UpdatePattern(refresh_intervals, confidence_level,
                                            current_time - last_refresh_time)
                    IN /\ refresh_intervals' = up.refresh_intervals
                       /\ confidence_level' = up.confidence_level
               ELSE UNCHANGED <<refresh_intervals, confidence_level>>
            /\ current_token' = <<new_token>>
            /\ last_refresh_time' = current_time
            /\ consecutive_same_tokens' = 0
       ELSE /\ consecutive_same_tokens' = consecutive_same_tokens + 1
            /\ UNCHANGED <<current_token, pattern>>
    /\ allIntervals' =
         IF successes > 1 /\ current_token # <<new_token>>
         THEN Append(allIntervals,
                     (current_time - last_refresh_time) \div TicksPerSecond)
         ELSE allIntervals
    /\ lock' = "free"
    /\ loop' = "calc"
    /\ snapshot' = NoSnapshot
    /\ UNCHANGED <<polling_interval, running, new_token, current_time, next_interval,
                   wall, forced, successes, polls>>
    /\ UNCHANGED shutdown
    /\ UNCHANGED kvars

\* the locked block left without releasing self.lock
LoopUpdate_keepsLock ==
    /\ loop = "locked"
    /\ IF <<new_token>> # current_token
       THEN /\ IF current_token # <<>>
               THEN LET up == UpdatePattern(refresh_intervals, confidence_level,
                                            current_time - last_refresh_time)
                    IN /\ refresh_intervals' = up.refresh_intervals
                       /\ confidence_level' = up.confidence_level
               ELSE UNCHANGED <<refresh_intervals, confidence_level>>
            /\ current_token' = <<new_token>>
            /\ last_refresh_time' = current_time
            /\ consecutive_same_tokens' = 0
       ELSE /\ consecutive_same_tokens' = consecutive_same_tokens + 1
            /\ UNCHANGED <<current_token, pattern>>
    /\ allIntervals' =
         IF successes > 1 /\ current_token # <<new_token>>
         THEN Append(allIntervals,
                     (current_time - last_refresh_time) \div TicksPerSecond)
         ELSE allIntervals
    /\ lock' = "loop"
    /\ loop' = "calc"
    /\ snapshot' = NoSnapshot
    /\ UNCHANGED <<polling_interval, running, new_token, current_time, next_interval,
                   wall, forced, successes, polls>>
    /\ UNCHANGED shutdown
    /\ UNCHANGED kvars

(***************************************************************************)
(* Lines 66-77: change detection under the lock, and the lock's release.   *)
(* allIntervals records a rotation: a fetched value that differs from the  *)
(* current credential, in a fetch that is not the first to succeed.        *)
(***************************************************************************)
LoopUpdate ==
    /\ loop = "locked"
    /\ IF <<new_token>> # current_token
       THEN /\ IF current_token # <<>>
               THEN LET up == UpdatePattern(refresh_intervals, confidence_level,
                                            current_time - last_refresh_time)
                    IN /\ refresh_intervals' = up.refresh_intervals
                       /\ confidence_level' = up.confidence_level
               ELSE UNCHANGED <<refresh_intervals, confidence_level>>
            /\ current_token' = <<new_token>>
            /\ last_refresh_time' = current_time
            /\ consecutive_same_tokens' = 0
       ELSE /\ consecutive_same_tokens' = consecutive_same_tokens + 1
            /\ UNCHANGED <<current_token, pattern>>
    /\ allIntervals' =
         IF successes > 1 /\ current_token # <<new_token>>
         THEN Append(allIntervals,
                     (current_time - last_refresh_time) \div TicksPerSecond)
         ELSE allIntervals
    /\ lock' = "free"
    /\ loop' = "calc"
    /\ snapshot' = NoSnapshot
    /\ UNCHANGED <<polling_interval, running, new_token, current_time, next_interval,
                   wall, forced, successes, polls>>
    /\ UNCHANGED shutdown
    /\ UNCHANGED kvars

\* Lines 80-86: the next interval is chosen and the sleep begins
LoopCalc ==
    /\ loop = "calc"
    /\ next_interval' = CalculateNextPollInterval(confidence_level, refresh_intervals,
                            last_refresh_time, consecutive_same_tokens, current_time)
    /\ loop' = "sleeping"
    /\ snapshot' = NoSnapshot
    /\ UNCHANGED <<current_token, pattern, polling_interval, running, lock, new_token,
                   current_time, consecutive_same_tokens, wall, forced,
                   allIntervals, successes, polls>>
    /\ UNCHANGED shutdown
    /\ UNCHANGED kvars

\* Line 86: asyncio.sleep(next_interval) is over
Wake ==
    /\ loop = "sleeping"
    /\ wall' = wall + next_interval * TicksPerSecond
    /\ loop' = "top"
    /\ snapshot' = NoSnapshot
    /\ UNCHANGED <<current_token, pattern, polling_interval, running, lock, new_token,
                   current_time, consecutive_same_tokens, next_interval,
                   forced, allIntervals, successes, polls>>
    /\ UNCHANGED shutdown
    /\ UNCHANGED kvars

\* the error handler leaving the loop instead of sleeping and retrying
WakeAfterError_exits ==
    /\ loop = "errsleep"
    /\ loop' = "done"
    /\ snapshot' = NoSnapshot
    /\ UNCHANGED <<current_token, pattern, polling_interval, running, lock, new_token,
                   current_time, consecutive_same_tokens, next_interval, wall,
                   forced, allIntervals, successes, polls>>
    /\ UNCHANGED shutdown
    /\ UNCHANGED kvars

\* Line 90: asyncio.sleep(30) is over
WakeAfterError ==
    /\ loop = "errsleep"
    /\ wall' = wall + 30 * TicksPerSecond
    /\ loop' = "top"
    /\ snapshot' = NoSnapshot
    /\ UNCHANGED <<current_token, pattern, polling_interval, running, lock, new_token,
                   current_time, consecutive_same_tokens, next_interval,
                   forced, allIntervals, successes, polls>>
    /\ UNCHANGED shutdown
    /\ UNCHANGED kvars

\* Lines 175-177, stop_polling
StopPolling ==
    /\ running
    /\ running' = FALSE
    /\ snapshot' = NoSnapshot
    /\ UNCHANGED <<current_token, pattern, polling_interval, lock, loop, new_token,
                   current_time, consecutive_same_tokens, next_interval, wall,
                   forced, allIntervals, successes, polls>>
    /\ UNCHANGED shutdown
    /\ UNCHANGED kvars

(***************************************************************************)
(* Lines 160-173 on a server thread: the lock is taken, the state read and *)
(* the lock released; nothing else runs under the lock meanwhile.          *)
(***************************************************************************)
Snapshot ==
    /\ lock = "free"
    /\ snapshot' = GetCurrentToken(wall)
    /\ UNCHANGED <<current_token, pattern, polling_interval, running, lock, loop,
                   new_token, current_time, consecutive_same_tokens, next_interval,
                   wall, forced, allIntervals, successes, polls>>
    /\ UNCHANGED shutdown
    /\ UNCHANGED kvars

\* Lines 244-248: /force-poll starts its own CredentialSource call
ForcePollStart ==
    /\ forced = "idle"
    /\ forced' = "fetching"
    /\ snapshot' = NoSnapshot
    /\ UNCHANGED <<current_token, pattern, polling_interval, running, lock, loop,
                   new_token, current_time, consecutive_same_tokens, next_interval,
                   wall, allIntervals, successes, polls>>
    /\ UNCHANGED shutdown
    /\ UNCHANGED kvars

\* force_poll adopting the token it fetched as the poller's current token
ForcePollReply_adopts(ok, tok) ==
    [reply |-> IF ok THEN [status |-> "forced", api_key |-> tok]
               ELSE [status |-> "force-error"],
     current_token |-> IF ok THEN <<tok>> ELSE current_token,
     last_refresh_time |-> IF ok THEN wall ELSE last_refresh_time]

(***************************************************************************)
(* Lines 247-252: what force_poll answers and what it leaves in the        *)
(* poller: {"api_key": new_token, "forced": True} or {"error": ...}, and   *)
(* nothing of the poller is assigned.                                      *)
(***************************************************************************)
ForcePollReply(ok, tok) ==
    [reply |-> IF ok THEN [status |-> "forced", api_key |-> tok]
               ELSE [status |-> "force-error"],
     current_token |-> current_token,
     last_refresh_time |-> last_refresh_time]

(***************************************************************************)
(* Lines 248-252: the CredentialSource call of /force-poll ends, with a    *)
(* token (ok) or an error, and the handler answers.                        *)
(***************************************************************************)
ForcePollEnd(ok, tok) ==
    /\ forced = "fetching"
    /\ forced' = "idle"
    /\ LET out == ForcePollReply(ok, tok)
       IN /\ snapshot' = out.reply
          /\ current_token' = out.current_token
          /\ last_refresh_time' = out.last_refresh_time
    /\ UNCHANGED <<refresh_intervals, confidence_level, polling_interval, running,
                   lock, loop, new_token, current_time, consecutive_same_tokens,
                   next_interval, wall, allIntervals, successes, polls>>
    /\ UNCHANGED shutdown
    /\ UNCHANGED kvars

(***************************************************************************)
(* Lines 187-189, lifespan's shutdown on the event loop: stop_polling()    *)
(* then task.cancel().  The event loop runs this only while the polling    *)
(* task is suspended (or not yet run, or finished).  CancelledError is     *)
(* thrown into the task at its pending await; it is not an Exception, so   *)
(* the handler at line 88 lets it through and the task ends cancelled.     *)
(***************************************************************************)
LifespanShutdown ==
    /\ shutdown = "no"
    /\ loop \in {"top", "fetching", "sleeping", "errsleep", "done"}
    /\ running' = FALSE
    /\ loop' = IF loop = "done" THEN "done" ELSE "cancelled"
    /\ shutdown' = "awaiting"
    /\ snapshot' = NoSnapshot
    /\ UNCHANGED <<current_token, pattern, polling_interval, lock, new_token,
                   current_time, consecutive_same_tokens, next_interval, wall,
                   forced, allIntervals, successes, polls>>
    /\ UNCHANGED kvars

\* lifespan's `await task` with the CancelledError handler removed
AwaitTask_uncaught(l) == IF l = "cancelled" THEN "raised" ELSE "clean"

\* Lines 190-193: `await task` inside try / except asyncio.CancelledError
AwaitTask(l) ==
    LET raised == IF l = "cancelled" THEN "CancelledError" ELSE "nothing"
    IN IF raised \in {"nothing", "CancelledError"} THEN "clean" ELSE "raised"

\* Lines 190-193: the awaited task has ended and lifespan leaves
LifespanAwait ==
    /\ shutdown = "awaiting"
    /\ loop \in {"done", "cancelled"}
    /\ shutdown' = AwaitTask(loop)
    /\ snapshot' = NoSnapshot
    /\ UNCHANGED <<current_token, pattern, polling_interval, running, lock, loop,
                   new_token, current_time, consecutive_same_tokens, next_interval,
                   wall, forced, allIntervals, successes, polls>>
    /\ UNCHANGED kvars

(***************************************************************************)
(*                            Specifications                               *)
(***************************************************************************)
Init == KeyInit /\ PollerInit

Next ==
    \/ \E c \in Callers, k \in Keys : FetchCall(c, k)
    \/ \E c \in Callers : CacheCheck(c)
    \/ \E c \in Callers, r \in Responses : NetRespond(c, r)
    \/ \E arg \in ClearArgs : ClearCache(arg)
    \/ \E d \in TickSteps : Tick(d)

Spec == Init /\ [][Next]_vars

NextPoller ==
    \/ StartPolling
    \/ LoopTop
    \/ \E tok \in Tokens, d \in Latencies : FetchOk(tok, d)
    \/ \E d \in Latencies : FetchFail(d)
    \/ LoopAcquire
    \/ LoopUpdate
    \/ LoopCalc
    \/ Wake
    \/ WakeAfterError
    \/ StopPolling
    \/ Snapshot
    \/ ForcePollStart
    \/ \E ok \in BOOLEAN, tok \in Tokens : ForcePollEnd(ok, tok)

SpecPoller == Init /\ [][NextPoller]_vars

(***************************************************************************)
(* The polling task under a fair event loop: a task that can run is run,   *)
(* a sleep that was started ends, and the Helix CLI terminates.            *)
(***************************************************************************)
LoopStep ==
    \/ LoopTop
    \/ \E tok \in Tokens, d \in Latencies : FetchOk(tok, d)
    \/ \E d \in Latencies : FetchFail(d)
    \/ LoopAcquire
    \/ LoopUpdate
    \/ LoopCalc
    \/ Wake
    \/ WakeAfterError

\* a step of the polling task within the calls explored under fairness
FairStep == LoopStep /\ polls' <= MaxFairPolls

\* the polling task and the calls that start, stop and cancel it
NextFair ==
    \/ StartPolling
    \/ FairStep
    \/ StopPolling
    \/ LifespanShutdown
    \/ LifespanAwait

FairPoller ==
    Init /\ [][NextFair]_vars /\ WF_vars(FairStep) /\ WF_vars(LifespanAwait)


(***************************************************************************)
(* The interval policy on its own: poller states at the point where        *)
(* _poll_loop calls _calculate_next_poll_interval, then that call.  A      *)
(* window shorter than 5 has seen every interval measured so far, which    *)
(* limits the confidence it can come with; no time has passed since the    *)
(* last refresh exactly when the token has just changed, and each later    *)
(* unchanged poll comes after a sleep of at least 30 s.                    *)
(***************************************************************************)
IntervalVals == {120, 300, 480}
ConsecutiveVals == {0, 4, 5, 6, 19, 20, 39, 40, 41}
ExtraTicks == {0, 1, 60 * TicksPerSecond}
RefreshTimes == {61, 1261}
Windows == UNION { [1..n -> IntervalVals] : n \in 0..5 }

PolicyInit ==
    /\ refresh_intervals \in Windows
    /\ confidence_level \in 0..MaxConfidence
    /\ Len(refresh_intervals) < 5 =>
           confidence_level <= Max(0, Len(refresh_intervals) - 2)
    /\ consecutive_same_tokens \in ConsecutiveVals
    /\ last_refresh_time \in RefreshTimes
    /\ \E extra \in ExtraTicks :
           current_time = last_refresh_time +
               (IF consecutive_same_tokens = 0 THEN 0
                ELSE 30 * TicksPerSecond * consecutive_same_tokens + extra)
    /\ current_token = <<"a">>
    /\ new_token = "a"
    /\ polling_interval = 30
    /\ running = TRUE
    /\ lock = "free"
    /\ loop = "calc"
    /\ next_interval = 0
    /\ wall = current_time
    /\ snapshot = NoSnapshot
    /\ forced = "idle"
    /\ allIntervals = refresh_intervals
    /\ successes = Len(refresh_intervals) + 1 + consecutive_same_tokens
    /\ polls = successes
    /\ shutdown = "no"

InitPolicy == KeyInit /\ PolicyInit

NextPolicy == LoopCalc

SpecPolicy == InitPolicy /\ [][NextPolicy]_vars


(***************************************************************************)
(*                              Properties                                 *)
(***************************************************************************)
Finished(c) == pc[c] \in {"returned", "raised"}
\* the cache check of c's call found an entry with now <= expiresAt
Hit(c) == seen[c] # {} /\ \A e \in seen[c] : e.valid
Errors == {InvalidResponse, FailedToFetch, FailedToConnect, UnexpectedError}

(***************************************************************************)
(* C1 as stated: two fetch(p) calls that race on a cold cache make exactly *)
(* one network call in total and both return the same value.               *)
(***************************************************************************)
C1_OneCallSameValue ==
    \A f \in Callers :
        (raceFirst = f /\ Finished(f) /\ Finished(Other(f))) =>
            /\ nets[f] + nets[Other(f)] = 1
            /\ pc[f] = "returned" /\ pc[Other(f)] = "returned"
            /\ result[f] = result[Other(f)]

(***************************************************************************)
(* C1 amended: of two fetch(p) calls racing on a cold cache the second     *)
(* queues behind the first and issues no request while the first is in     *)
(* flight; if the first succeeds and the second's cache check finds its    *)
(* entry present and unexpired there is exactly one network call in total  *)
(* and both return the same value; otherwise (the first failed, or its     *)
(* entry had expired or been cleared) the second issues its own request.   *)
(***************************************************************************)
C1_SingleFlightWhenFirstSucceeds ==
    \A f \in Callers :
        raceFirst = f =>
            LET o == Other(f) IN
            /\ pc[f] \in {"waiting", "fetching"} => (pc[o] = "waiting" /\ nets[o] = 0)
            /\ (Finished(f) /\ Finished(o)) =>
                   IF pc[f] = "returned" /\ Hit(o)
                   THEN /\ nets[f] + nets[o] = 1
                        /\ pc[o] = "returned"
                        /\ result[o] = result[f]
                   ELSE nets[f] + nets[o] = 2

C1_Witness ==
    \E f \in Callers :
        /\ raceFirst = f
        /\ pc[f] = "returned" /\ pc[Other(f)] = "returned"
        /\ nets[f] = 1 /\ nets[Other(f)] = 0
        /\ result[f] = result[Other(f)]

(***************************************************************************)
(* C2: a fetch(k) whose cache check finds the stored entry with            *)
(* now <= expiresAt returns the stored value and issues no network call;   *)
(* one that finds it with now > expiresAt issues exactly one network call. *)
(***************************************************************************)
C2_CacheRoundTrip ==
    \A c \in Callers :
        (pc[c] \in {"fetching", "returned", "raised"} /\ seen[c] # {}) =>
            IF Hit(c)
            THEN /\ pc[c] = "returned"
                 /\ nets[c] = 0
                 /\ \A e \in seen[c] : result[c] = e.value
            ELSE nets[c] = 1

C2_Witness ==
    \E c \in Callers :
        /\ pc[c] = "returned" /\ Hit(c) /\ nets[c] = 0
        /\ pc[Other(c)] = "returned" /\ nets[Other(c)] = 1
        /\ result[c] = result[Other(c)]
        /\ raceFirst = "none"

(***************************************************************************)
(* C3: a step by which a fetch call fails hands one of the provider's      *)
(* errors to the caller and leaves the whole cache mapping as it was, and  *)
(* so does the step (the cache check) that preceded it in the call.        *)
(***************************************************************************)
C3_FailureLeavesCache ==
    [][\A c \in Callers :
          /\ (pc[c] \in {"waiting", "fetching"} /\ pc'[c] = "raised") =>
                 (cache' = cache /\ result'[c] \in Errors)
          /\ (pc[c] = "waiting" /\ pc'[c] = "fetching") => cache' = cache]_vars

C3_Witness ==
    \E c \in Callers :
        /\ pc[c] = "raised"
        /\ seen[c] # {}
        /\ provider_name[c] \in DOMAIN cache

(***************************************************************************)
(* C4 as stated: when the endpoint answers 2xx with a body that has        *)
(* neither a token nor an api_key field, the error that reaches the caller *)
(* of fetch is the invalid-response error, not any other kind.             *)
(***************************************************************************)
NoKeyField(r) ==
    r.kind = "ok" /\ "token" \notin r.data.has /\ "api_key" \notin r.data.has

C4_InvalidResponseReachesCaller ==
    NoKeyField(reply) =>
        (pc[reply.to] = "raised" /\ result[reply.to] = InvalidResponse)

(***************************************************************************)
(* C5: what a 2xx body decides.  Succeeds(c, v, e): the call has returned  *)
(* v and the cache holds v for its key with expiresAt = now + e.           *)
(***************************************************************************)
Succeeds(c, v, e) ==
    /\ pc[c] = "returned"
    /\ result[c] = v
    /\ provider_name[c] \in DOMAIN cache
    /\ cache[provider_name[c]] = [key |-> v, expires_at |-> now + e]

\* the call has failed with one of the provider's errors
Fails(c) == pc[c] = "raised" /\ result[c] \in Errors

TokenLifetime(data) ==
    IF "age_seconds" \in data.has
    THEN (IF 1800 - data.age_seconds > 60 THEN 1800 - data.age_seconds ELSE 60)
    ELSE cache_duration_seconds

ApiKeyLifetime(data) ==
    IF "expires_in" \in data.has THEN data.expires_in ELSE cache_duration_seconds

(***************************************************************************)
(* C5 as stated: field presence alone decides; a body with token succeeds  *)
(* with the token, else a body with api_key succeeds with the api_key.     *)
(***************************************************************************)
C5_PresenceAloneDecides ==
    reply.kind = "ok" =>
        IF "token" \in reply.data.has
        THEN Succeeds(reply.to, reply.data.token, TokenLifetime(reply.data))
        ELSE IF "api_key" \in reply.data.has
        THEN Succeeds(reply.to, reply.data.api_key, ApiKeyLifetime(reply.data))
        ELSE TRUE

(***************************************************************************)
(* C5 amended: the first field present is the one selected (token before   *)
(* api_key); the fetch succeeds with its value and the stated lifetime     *)
(* when that value is a non-empty string, and fails when the selected      *)
(* value is empty or when neither field is present.                        *)
(***************************************************************************)
C5_FirstPresentNonEmptyDecides ==
    reply.kind = "ok" =>
        IF "token" \in reply.data.has
        THEN IF reply.data.token # ""
             THEN Succeeds(reply.to, reply.data.token, TokenLifetime(reply.data))
             ELSE Fails(reply.to)
        ELSE IF "api_key" \in reply.data.has
        THEN IF reply.data.api_key # ""
             THEN Succeeds(reply.to, reply.data.api_key, ApiKeyLifetime(reply.data))
             ELSE Fails(reply.to)
        ELSE Fails(reply.to)

C5_Witness ==
    /\ reply.kind = "ok"
    /\ reply.data.has = {"token", "age_seconds", "api_key"}
    /\ reply.data.token = "abc" /\ reply.data.age_seconds = 1700
    /\ now > 0
    /\ Succeeds(reply.to, "abc", 100)

(***************************************************************************)
(* C6: the window never holds more than 5 intervals, holds                 *)
(* min(5, rotations seen) of them, and they are the latest ones in order   *)
(* (the oldest is the one evicted).                                        *)
(***************************************************************************)
C6_WindowIsLastFive ==
    LET n == Len(allIntervals)
        k == Len(refresh_intervals)
    IN /\ k <= 5
       /\ k = Min(5, n)
       /\ refresh_intervals = SubSeq(allIntervals, n - k + 1, n)

C6_Witness == Len(allIntervals) > 5 /\ refresh_intervals[1] # allIntervals[1]

\* a step of the loop that appends an interval to the window
AppendsInterval == Len(allIntervals') = Len(allIntervals) + 1

\* the population variance of window w is below 100
VarianceBelow100(w) ==
    LET n == Len(w)
        mean_n == Sum(w)
        sq(i) == (n * w[i] - mean_n) * (n * w[i] - mean_n)
    IN Sum([i \in 1..n |-> sq(i)]) < 100 * n * n * n

(***************************************************************************)
(* C7 as stated: every appended interval updates confidence from the       *)
(* variance of the window, whatever its size.                              *)
(***************************************************************************)
C7_UpdatedAtEverySize ==
    [][AppendsInterval =>
          confidence_level' = IF VarianceBelow100(refresh_intervals')
                              THEN confidence_level + 1
                              ELSE Max(0, confidence_level - 1)]_vars

(***************************************************************************)
(* C7 amended: when an interval is appended and the window then holds at   *)
(* least 3 intervals, confidence is incremented if the window's variance   *)
(* is < 100 and otherwise decremented with a floor of 0; while the window  *)
(* holds fewer than 3 intervals an append leaves confidence unchanged.     *)
(***************************************************************************)
C7_UpdatedFromThreeSamples ==
    [][AppendsInterval =>
          confidence_level' =
              IF Len(refresh_intervals') >= 3
              THEN IF VarianceBelow100(refresh_intervals')
                   THEN confidence_level + 1
                   ELSE Max(0, confidence_level - 1)
              ELSE confidence_level]_vars

C7_Witness ==
    /\ Len(refresh_intervals) >= 3
    /\ VarianceBelow100(refresh_intervals)
    /\ confidence_level >= 1
    /\ loop = "calc"

(***************************************************************************)
(* C8: confidence is never negative; it changes only in a step that        *)
(* appends an interval, rises only when the resulting window has variance  *)
(* < 100 and falls only when it has not.                                   *)
(***************************************************************************)
C8_ConfidenceChangesOnlyOnAppend ==
    /\ [](confidence_level >= 0)
    /\ [][/\ confidence_level' # confidence_level => AppendsInterval
          /\ confidence_level' > confidence_level =>
                 VarianceBelow100(refresh_intervals')
          /\ confidence_level' < confidence_level =>
                 ~VarianceBelow100(refresh_intervals')]_vars

\* confidence rose at one of the first appends, has fallen back to 0 since,
\* and a force-refresh is in flight
C8_Witness ==
    /\ confidence_level = 0
    /\ \E i \in 3..Min(5, Len(allIntervals)) :
           VarianceBelow100(SubSeq(allIntervals, 1, i))
    /\ forced = "fetching"

(***************************************************************************)
(* C9: the sleep chosen is the policy's: with confidence >= 3 and a        *)
(* non-empty window, remaining = mean - elapsed gives 120 s above 300,     *)
(* 60 s above 120 and 30 s otherwise; else the count of unchanged polls    *)
(* gives 30 s below 5, 60 s below 20, 120 s below 40 and 300 s from 40.    *)
(* (remaining > x, times n * TicksPerSecond, with elapsed in ticks.)       *)
(***************************************************************************)
RemainingAbove(x) ==
    LET n == Len(refresh_intervals)
        elapsed == current_time - last_refresh_time
    IN TicksPerSecond * Sum(refresh_intervals) > n * (elapsed + x * TicksPerSecond)

C9_SleepFollowsPolicy ==
    loop = "sleeping" =>
        next_interval =
            IF confidence_level >= 3 /\ Len(refresh_intervals) > 0
            THEN (IF RemainingAbove(300) THEN 120
                  ELSE IF RemainingAbove(120) THEN 60
                  ELSE 30)
            ELSE (IF consecutive_same_tokens < 5 THEN 30
                  ELSE IF consecutive_same_tokens < 20 THEN 60
                  ELSE IF consecutive_same_tokens < 40 THEN 120
                  ELSE 300)

C9_Witness ==
    /\ loop = "sleeping"
    /\ confidence_level >= 3
    /\ consecutive_same_tokens = 6
    /\ RemainingAbove(120) /\ ~RemainingAbove(300)
    /\ next_interval = 60

\* confidence >= 3, window average 300 s, 0 s since the last rotation
AverageIs300AtRotation ==
    /\ loop = "sleeping"
    /\ confidence_level >= 3
    /\ refresh_intervals # <<>>
    /\ Sum(refresh_intervals) = 300 * Len(refresh_intervals)
    /\ current_time = last_refresh_time

(***************************************************************************)
(* C10 as stated: with confidence >= 3, a window average of 300 s and 0 s  *)
(* elapsed since the last rotation, the next interval is 120 s.            *)
(***************************************************************************)
C10_Average300Gives120 == AverageIs300AtRotation => next_interval = 120

(***************************************************************************)
(* C10 amended: with confidence >= 3, a window average of 300 s and 0 s    *)
(* elapsed since the last rotation, the next interval is 60 s (remaining   *)
(* is exactly 300, which is not above 300).                                *)
(***************************************************************************)
C10_Average300Gives60 == AverageIs300AtRotation => next_interval = 60

C10_Witness == AverageIs300AtRotation /\ consecutive_same_tokens = 0


(***************************************************************************)
(* C11: a CredentialSource failure never ends the polling loop and changes *)
(* neither the current credential, the pattern nor the count of identical  *)
(* fetches.  The loop ends only once running is false; after a failure it  *)
(* waits exactly 30 s, returns to the top of the loop and, while running   *)
(* is still true, calls CredentialSource again, however many failures came *)
(* before.                                                                 *)
(***************************************************************************)
C11_FailureIsRetriedAfter30s ==
    /\ [](loop \in {"done", "cancelled"} => ~running)
    /\ [][(loop = "fetching" /\ loop' = "errsleep") =>
            UNCHANGED <<current_token, pattern, consecutive_same_tokens, running>>]_vars
    /\ [][(loop = "errsleep" /\ loop' # "errsleep") =>
            \/ loop' = "cancelled"
            \/ /\ loop' = "top"
               /\ wall' = wall + 30 * TicksPerSecond
               /\ UNCHANGED <<current_token, pattern, consecutive_same_tokens>>]_vars
    /\ [][(loop = "top" /\ running /\ loop' # "top") =>
            loop' \in {"fetching", "cancelled"}]_vars
    /\ (loop = "errsleep" /\ polls < MaxFairPolls) ~> (loop = "fetching" \/ ~running)

\* three calls in a row: the first two failed and the loop is calling again
C11_Witness == polls = 3 /\ successes = 0 /\ loop = "fetching" /\ running

(***************************************************************************)
(* C12: once running is false no CredentialSource call is started by the   *)
(* loop; the loop sees the flag at the top of its next iteration and ends; *)
(* the polling task eventually ends (finished or cancelled); the shutdown  *)
(* that awaits the task never raises and eventually completes, also when   *)
(* the task was cancelled in the middle of a sleep.                        *)
(***************************************************************************)
C12_StopEndsTheTask ==
    /\ [][~running => polls' = polls]_vars
    /\ [][(~running /\ loop = "top" /\ loop' # "top") =>
            loop' \in {"done", "cancelled"}]_vars
    /\ [](shutdown # "raised")
    /\ (~running /\ loop # "unstarted") ~> (loop \in {"done", "cancelled"})
    /\ (shutdown = "awaiting") ~> (shutdown = "clean")

\* the first sleep was cancelled before it ended, and the shutdown completed
C12_Witness ==
    /\ shutdown = "clean"
    /\ loop = "cancelled"
    /\ polls = 1
    /\ next_interval = 30
    /\ wall = current_time

\* a get_current_token call has just returned or raised
NoTokenYet == "No token available yet"
Answered == snapshot.status \in {"ok", NoTokenYet}

(***************************************************************************)
(* C13 as stated: Snapshot fails exactly when no successful fetch has been *)
(* recorded; after one, whatever string it returned, Snapshot succeeds.    *)
(***************************************************************************)
C13_FailsOnlyBeforeFirstFetch ==
    Answered => (snapshot.status = NoTokenYet <=> current_token = <<>>)

(***************************************************************************)
(* C13, amended: Snapshot fails exactly when the poller holds no           *)
(* credential or holds the empty string; it always fails before the loop's *)
(* first successful fetch; otherwise it succeeds and returns the current   *)
(* credential with the time of its last rotation, its age, the confidence  *)
(* and the window.                                                         *)
(***************************************************************************)
C13_FailsOnNoneOrEmpty ==
    Answered =>
        /\ successes = 0 => snapshot.status = NoTokenYet
        /\ IF current_token = <<>> \/ current_token = <<"">>
           THEN snapshot.status = NoTokenYet
           ELSE /\ snapshot.status = "ok"
                /\ snapshot.token = current_token[1]
                /\ snapshot.last_refresh = last_refresh_time
                /\ snapshot.age_seconds = wall - last_refresh_time
                /\ snapshot.confidence_level = confidence_level
                /\ snapshot.refresh_intervals = refresh_intervals

\* the loop has recorded an empty token after a rotation, and Snapshot fails
C13_Witness ==
    /\ snapshot.status = NoTokenYet
    /\ current_token = <<"">>
    /\ Len(allIntervals) >= 1

(***************************************************************************)
(* C14: the polling interval that Snapshot returns is the sleep duration   *)
(* the interval policy chose in the loop's most recent iteration.          *)
(***************************************************************************)
C14_SnapshotReportsChosenSleep ==
    (snapshot.status = "ok" /\ next_interval > 0) =>
        snapshot.polling_interval = next_interval

\* a /force-poll request has just been answered
ForceAnswered == snapshot.status \in {"forced", "force-error"}

(***************************************************************************)
(* C15: a force-refresh makes one CredentialSource call of its own and     *)
(* changes nothing of the poller: the current credential, the time of the  *)
(* last rotation, the window, the confidence, the count of identical       *)
(* fetches, the loop's position and its pending sleep are the same after   *)
(* it as before, whether it fails or returns the current or another token. *)
(***************************************************************************)
C15_ForcePollLeavesPollerAlone ==
    [][(forced # forced' \/ ForceAnswered') =>
         /\ UNCHANGED <<current_token, pattern, consecutive_same_tokens,
                        polling_interval, running, lock, loop, new_token,
                        current_time, next_interval, wall, polls, successes>>
         /\ ForceAnswered' <=> (forced = "fetching" /\ forced' = "idle")]_vars

\* during the loop's sleep a force-refresh returned a token other than the
\* current one, after rotations had been seen
C15_Witness ==
    /\ snapshot.status = "forced"
    /\ current_token # <<>>
    /\ <<snapshot.api_key>> # current_token
    /\ loop = "sleeping"
    /\ refresh_intervals # <<>>

(***************************************************************************)
(* C16: clear_cache(key), for every string key, removes exactly the entry  *)
(* for that key (nothing if there is none) and leaves every other entry    *)
(* as it was; clear_cache() without a key removes all entries; neither     *)
(* issues a network request.                                               *)
(***************************************************************************)
C16_ClearRemovesExactlyTheKey ==
    [][reply'.kind = "clear" =>
         /\ cache' = IF reply'.arg = PyNone
                     THEN <<>>
                     ELSE [x \in DOMAIN cache \ {reply'.arg} |-> cache[x]]
         /\ UNCHANGED <<nets, pc, lockQueue>>]_vars

\* the calls that have passed their cache check and not yet returned or raised
InFlight == {c \in Callers : pc[c] = "fetching"}

(***************************************************************************)
(* C17: fetches on one cache exclude each other.  In every reachable state *)
(* at most one call is between its cache check and its return, that call   *)
(* holds the lock, so at most one request is in flight, whether the        *)
(* callers ask for the same key or for different keys; and no call issues  *)
(* more than one request.                                                  *)
(***************************************************************************)
C17_OneFetchAtATime ==
    /\ Cardinality(InFlight) <= 1
    /\ \A c \in InFlight : Holder = c
    /\ \A c \in Callers : nets[c] <= 1
    /\ \A c \in Callers : pc[c] = "waiting" => c \in {lockQueue[i] : i \in 1..Len(lockQueue)}

\* one call awaits its response while a call for another key waits for the lock
C17_Witness ==
    \E c \in Callers :
        /\ pc[c] = "fetching"
        /\ pc[Other(c)] = "waiting"
        /\ provider_name[c] # provider_name[Other(c)]

(***************************************************************************)
(* C18: change detection on a successful fetch.  A value equal to the      *)
(* current credential adds 1 to the count of identical fetches and leaves  *)
(* the credential, the time of the last rotation, the window and the       *)
(* confidence as they were.  A different value is recorded with the time   *)
(* of the fetch and resets the count to 0; at the first fetch ever no      *)
(* interval is appended (window and confidence unchanged), at any later    *)
(* one the whole seconds since the previous rotation are appended.         *)
(***************************************************************************)
C18_ChangeDetection ==
    /\ [](loop = "locked" => (current_token = <<>> <=> successes = 1))
    /\ [][(loop = "locked" /\ loop' # "locked") =>
            IF <<new_token>> = current_token
            THEN /\ consecutive_same_tokens' = consecutive_same_tokens + 1
                 /\ UNCHANGED <<current_token, pattern>>
            ELSE /\ current_token' = <<new_token>>
                 /\ last_refresh_time' = current_time
                 /\ consecutive_same_tokens' = 0
                 /\ IF current_token = <<>>
                    THEN UNCHANGED <<refresh_intervals, confidence_level>>
                    ELSE /\ Len(refresh_intervals') = Min(5, Len(refresh_intervals) + 1)
                         /\ refresh_intervals'[Len(refresh_intervals')] =
                              (current_time - last_refresh_time) \div TicksPerSecond]_vars

\* a later rotation has just been recorded: 30.5 s after the previous one,
\* appended as 30
C18_Witness ==
    /\ loop = "calc"
    /\ successes >= 3
    /\ consecutive_same_tokens = 0
    /\ last_refresh_time = current_time
    /\ Len(refresh_intervals) >= 2
    /\ refresh_intervals[Len(refresh_intervals)] = 30

\* the polling task is suspended at an await
Suspended == loop \in {"fetching", "sleeping", "errsleep"}

(***************************************************************************)
(* C19: the polling loop never holds the poller's lock while suspended.    *)
(* In every reachable state where the loop awaits the CredentialSource     *)
(* call, its end-of-iteration sleep or its 30 s fallback sleep, the lock   *)
(* is free; the loop holds it only inside the change-detection block.      *)
(***************************************************************************)
C19_LockFreeWhileSuspended ==
    /\ Suspended => lock = "free"
    /\ lock = "loop" <=> loop = "locked"

\* get_current_token returned a token while the loop was asleep
C19_Witness == loop = "sleeping" /\ snapshot.status = "ok"

(***************************************************************************)
(* C20: clear_cache is not serialized with fetch_api_key by the lock.  It  *)
(* runs while a call holds the lock and awaits its response, without       *)
(* touching the lock or the call; a clear_cache covering key k at that     *)
(* time does not keep the call from storing its result afterwards.  (So a  *)
(* call for k begun after that clear_cache can be served from the cache    *)
(* without a request: the state C20_Witness describes.)                    *)
(***************************************************************************)
C20_ClearDoesNotStopTheStore ==
    /\ [][reply'.kind = "clear" => UNCHANGED <<lockQueue, pc, nets>>]_vars
    /\ [](\A c \in Callers :
            (reply.kind = "ok" /\ reply.to = c /\ pc[c] = "returned"
                /\ clearSeen[c] = "during") =>
               /\ provider_name[c] \in DOMAIN cache
               /\ cache[provider_name[c]].key = result[c])

\* the first call for k begun after clear_cache(k) returned the key stored
\* by the call that was in flight during the clear, and issued no request
C20_Witness ==
    \E c \in Callers :
        /\ clearSeen[c] = "after"
        /\ pc[c] = "returned"
        /\ nets[c] = 0
        /\ clearSeen[Other(c)] = "during"
        /\ pc[Other(c)] = "returned"
        /\ provider_name[Other(c)] = provider_name[c]
        /\ result[c] = result[Other(c)]

\* Lines 131-138: the sleep chosen from the count of identical fetches alone
ByConsecutive(n) ==
    IF n < 5 THEN 30 ELSE IF n < 20 THEN 60 ELSE IF n < 40 THEN 120 ELSE 300

(***************************************************************************)
(* C21: in every reachable state confidence is at most                     *)
(* max(0, intervals appended so far - 2).  So confidence is below 3 until  *)
(* the fifth rotation has been recorded, and every sleep chosen before     *)
(* then is the one the count of identical fetches gives.                   *)
(***************************************************************************)
C21_ConfidenceLagsRotations ==
    /\ confidence_level <= Max(0, Len(allIntervals) - 2)
    /\ Len(allIntervals) < 5 => confidence_level < 3
    /\ (loop = "sleeping" /\ Len(allIntervals) < 5) =>
           next_interval = ByConsecutive(consecutive_same_tokens)

\* the fifth rotation has just brought confidence to 3, and the loop sleeps
C21_Witness ==
    /\ Len(allIntervals) = 5
    /\ confidence_level = 3
    /\ consecutive_same_tokens = 0
    /\ loop = "sleeping"

=============================================================================
